---- MODULE Spec2Model ----
(***************************************************************************)
(* A model of the us3 storage adapter (package us3): the path resolver,    *)
(* the error normalizer, create / delete / stat and the paginated listing. *)
(*                                                                         *)
(* Go strings are sequences of one-character strings, so that prefixing    *)
(* and prefix stripping are computed and not assumed.  A Go error is a     *)
(* record that keeps its dynamic type (t): a type assertion in the code    *)
(* is a test on t.  Every behaviour follows one kind of call (op): the     *)
(* calls of different kinds share no state that the adapter reads.         *)
(***************************************************************************)
EXTENDS Integers, Sequences, FiniteSets, TLC

VARIABLES
    workDir,      \* Storage.workDir
    virtualDir,   \* Storage.features.VirtualDir
    op,           \* the kind of call this behaviour follows
    ret,          \* create: the sequence of objects returned (<<>> is a nil return)
    delLog,       \* delete: one record per finished call
    errChain,     \* formatError: an error followed by its successive normalizations
    lastHeader,   \* Storage.client.LastResponseHeader, shared by every call
    statPc,       \* stat: each caller's position
    statArg,      \* stat: each caller's path, mode and resolved key
    statOwn,      \* stat: <<h>> once the backend answered the caller's head request with header h
    statRet,      \* stat: each caller's result
    cursor,       \* list: the objectPageStatus of the listing
    listMode,     \* list: the mode the listing was opened with
    listState,    \* list: "none", "active", "done" or "failed"
    listErr,      \* list: the error list or the page function returned
    served,       \* list: the backend calls made, with the marker sent and the response
    delivered     \* list: page.Data of every successful fetch, concatenated

vars == <<workDir, virtualDir, op, ret, delLog, errChain, lastHeader, statPc,
          statArg, statOwn, statRet, cursor, listMode, listState, listErr,
          served, delivered>>

-----------------------------------------------------------------------------
(* Bounds *)

\* backend list calls one listing may make
MaxCalls == 4
\* delete calls in one behaviour
MaxDeletes == 2
\* times an error is passed through formatError
MaxNormalize == 2

-----------------------------------------------------------------------------
(* Strings *)

HasPrefix(s, p) == Len(s) >= Len(p) /\ SubSeq(s, 1, Len(p)) = p

\* strings.TrimPrefix
TrimPrefix(s, p) == IF HasPrefix(s, p) THEN SubSeq(s, Len(p) + 1, Len(s)) ELSE s

Slash == <<"/">>

Digits == <<"0", "1", "2", "3", "4", "5", "6", "7", "8", "9">>

DigitValue(c) == CHOOSE d \in 0..9 : Digits[d + 1] = c

IsDigit(c) == \E d \in 0..9 : Digits[d + 1] = c

\* the decimal string of a small natural number
RECURSIVE Itoa(_)
Itoa(n) == IF n < 10 THEN <<Digits[n + 1]>> ELSE Itoa(n \div 10) \o <<Digits[(n % 10) + 1]>>

-----------------------------------------------------------------------------
(* Configurations and arguments *)

WorkDirs == { <<"/">>, <<"/", "w", "/">>, <<"w", "/">> }

Paths == { <<"a">>, <<"b", "/", "c">> }

-----------------------------------------------------------------------------
(* Path resolver *)

GetAbsPathNoTrim(path) == workDir \o path

\* Storage.getAbsPath
GetAbsPath(path) == TrimPrefix(workDir, Slash) \o path

\* Storage.getRelPath
GetRelPath(key) == TrimPrefix(key, TrimPrefix(workDir, Slash))

-----------------------------------------------------------------------------
(* Objects *)

ModeDir == "Dir"
ModeRead == "Read"

\* an optional attribute: <<>> when unset, <<v>> when set
Unset == <<>>

\* types.NewObject(s, done) through Storage.newObject
NewObject(done) ==
    [ID |-> <<>>, Path |-> <<>>, Mode |-> {}, done |-> done,
     contentLength |-> Unset, lastModified |-> Unset, contentType |-> Unset,
     etag |-> Unset, systemMetadata |-> Unset]

-----------------------------------------------------------------------------
(* Errors *)

AccessDenied == -148643
NoSuchKey == -148654
\* a backend code the adapter does not name
OtherCodes == {-148660}

ErrPermissionDenied == "ErrPermissionDenied"
ErrObjectNotExist == "ErrObjectNotExist"
ErrUnexpected == "ErrUnexpected"

Error(t, code, internal, text) ==
    [t |-> t, code |-> code, internal |-> internal, wraps |-> "", text |-> text]

Nil == Error("nil", 0, FALSE, <<>>)

\* the text of a backend code in an error message
CodeText(code) ==
    CASE code = AccessDenied -> "AccessDenied"
      [] code = NoSuchKey -> "NoSuchKey"
      [] OTHER -> "other"

\* uerr.ServerError held by value, as uerr.NewServerCodeError returns it
ServerError(code) == Error("ServerError", code, FALSE, <<"ServerError", CodeText(code)>>)

\* a pointer to a uerr.ServerError
PtrServerError(code) == Error("*ServerError", code, FALSE, <<"ServerError", CodeText(code)>>)

\* an error of another package (errors.New, fmt.Errorf): it carries no code
PlainError(msg) == Error("errorString", 0, FALSE, <<msg>>)

\* services.PairUnsupportedError, an InternalError
PairUnsupportedError == Error("PairUnsupportedError", 0, TRUE, <<"PairUnsupportedError">>)

\* services.ListModeInvalidError, an InternalError
ListModeInvalidError == Error("ListModeInvalidError", 0, TRUE, <<"ListModeInvalidError">>)

\* strconv.NumError, returned by strconv.ParseInt
NumError == Error("NumError", 0, FALSE, <<"NumError">>)

\* time.ParseError, returned by time.Parse
ParseError == Error("ParseError", 0, FALSE, <<"ParseError">>)

\* types.IterateDone
IterateDone == Error("IterateDone", 0, FALSE, <<"IterateDone">>)

\* fmt.Errorf("%w, %v", kind, err): wraps kind alone, and keeps err as text
Errorf(kind, err) ==
    [t |-> "wrapError", code |-> 0, internal |-> FALSE, wraps |-> kind,
     text |-> <<kind>> \o err.text]

\* the portable kind errors.Is finds in an error; "none" when it holds none
Kind(err) == IF err.t = "wrapError" THEN err.wraps ELSE "none"

\* formatError: the InternalError test, then the *uerr.ServerError test
FormatError(err) ==
    IF err.internal THEN err
    ELSE IF err.t = "*ServerError"
         THEN CASE err.code = AccessDenied -> Errorf(ErrPermissionDenied, err)
                [] err.code = NoSuchKey -> Errorf(ErrObjectNotExist, err)
                [] OTHER -> Errorf(ErrUnexpected, err)
         ELSE Errorf(ErrUnexpected, err)

\* Storage.formatError: nil stays nil, anything else becomes a StorageError
\* whose Err is formatError(err); the model keeps that Err
StorageFormatError(err) == IF err = Nil THEN Nil ELSE FormatError(err)

Codes == {AccessDenied, NoSuchKey} \cup OtherCodes

\* the errors a backend call can fail with
BackendErrors ==
    {ServerError(c) : c \in Codes} \cup {PtrServerError(c) : c \in Codes}
        \cup {PlainError("timeout")}

\* the errors formatError is applied to
ErrorInputs == BackendErrors \cup {PairUnsupportedError, ListModeInvalidError, NumError, ParseError}

-----------------------------------------------------------------------------
(* Options *)

\* the object-mode pair of create, delete and stat
ObjectModeOpts ==
    { [HasObjectMode |-> FALSE, ObjectMode |-> {}],
      [HasObjectMode |-> TRUE, ObjectMode |-> {ModeDir}],
      [HasObjectMode |-> TRUE, ObjectMode |-> {ModeRead}] }

\* ObjectMode.IsDir
IsDir(mode) == ModeDir \in mode

WantsDir(opt) == opt.HasObjectMode /\ IsDir(opt.ObjectMode)

-----------------------------------------------------------------------------
(* create *)

\* Storage.create: the objects returned, <<>> for the nil return
create(path, opt) ==
    IF WantsDir(opt)
    THEN IF ~virtualDir
         THEN <<>>
         ELSE <<[NewObject(TRUE) EXCEPT !.Mode = {ModeDir},
                                        !.ID = GetAbsPath(path) \o Slash,
                                        !.Path = path]>>
    ELSE <<[NewObject(FALSE) EXCEPT !.Mode = {ModeRead},
                                    !.ID = GetAbsPath(path),
                                    !.Path = path]>>

-----------------------------------------------------------------------------
(* delete *)

\* the key Storage.delete sends to DeleteFile
deleteKey(path, opt) ==
    IF WantsDir(opt) THEN GetAbsPath(path) \o Slash ELSE GetAbsPath(path)

deleteAnswerNoIntercept(backendErr) == backendErr

deleteAnswerSwallowsAll(backendErr) == Nil

\* Storage.delete after DeleteFile has answered backendErr
deleteAnswer(backendErr) ==
    IF backendErr # Nil
    THEN IF backendErr.t = "ServerError" /\ backendErr.code = NoSuchKey
         THEN Nil
         ELSE backendErr
    ELSE Nil

-----------------------------------------------------------------------------
(* Parsing *)

Unsigned(s) == IF s # <<>> /\ s[1] \in {"+", "-"} THEN Tail(s) ELSE s

RECURSIVE DecimalValue(_)
DecimalValue(s) ==
    IF s = <<>> THEN 0
    ELSE 10 * DecimalValue(SubSeq(s, 1, Len(s) - 1)) + DigitValue(s[Len(s)])

\* strconv.ParseInt(s, 10, 64) on short strings: an optional sign, then one
\* digit or more
ParseInt(s) ==
    IF Unsigned(s) # <<>> /\ \A i \in 1..Len(Unsigned(s)) : IsDigit(Unsigned(s)[i])
    THEN [ok |-> TRUE,
          val |-> IF s[1] = "-" THEN 0 - DecimalValue(Unsigned(s)) ELSE DecimalValue(Unsigned(s))]
    ELSE [ok |-> FALSE, val |-> 0]

\* the HTTP dates of the model, with their instants in Unix seconds
HTTPDates ==
    { [text |-> "Mon, 02 Jan 2006 15:04:05 GMT", unix |-> 1136214245],
      [text |-> "Tue, 10 Nov 2009 23:00:00 GMT", unix |-> 1257894000] }

\* time.Parse(time.RFC1123, value)
ParseRFC1123(value) ==
    IF \E d \in HTTPDates : d.text = value
    THEN [ok |-> TRUE, unix |-> (CHOOSE d \in HTTPDates : d.text = value).unix]
    ELSE [ok |-> FALSE, unix |-> 0]

-----------------------------------------------------------------------------
(* stat *)

NoHeader == [ContentLength |-> <<>>, LastModified |-> "", ContentType |-> "",
             ETag |-> "", StorageClass |-> ""]

\* the response headers a head request can be answered with
Headers ==
    { [ContentLength |-> <<"4", "2">>, LastModified |-> "Mon, 02 Jan 2006 15:04:05 GMT",
       ContentType |-> "text/plain", ETag |-> "e1", StorageClass |-> "STANDARD"],
      [ContentLength |-> <<"7">>, LastModified |-> "Tue, 10 Nov 2009 23:00:00 GMT",
       ContentType |-> "image/png", ETag |-> "e2", StorageClass |-> "IA"],
      NoHeader,
      [NoHeader EXCEPT !.ContentLength = <<"4", "x">>],
      [NoHeader EXCEPT !.LastModified = "yesterday"] }

\* the key Storage.stat sends to HeadFile
statKey(path, opt) ==
    IF WantsDir(opt) THEN GetAbsPath(path) \o Slash ELSE GetAbsPath(path)

\* Storage.stat after HeadFile succeeded: the object built from the header
\* read from the client
statObject(path, opt, rp, output) ==
    LET o0 == [NewObject(TRUE) EXCEPT !.ID = rp, !.Path = path,
                   !.Mode = IF WantsDir(opt) THEN {ModeDir} ELSE {ModeRead}]
        length == ParseInt(output.ContentLength)
        modified == ParseRFC1123(output.LastModified)
        o1 == IF output.ContentLength # <<>>
              THEN [o0 EXCEPT !.contentLength = <<length.val>>] ELSE o0
        o2 == IF output.LastModified # ""
              THEN [o1 EXCEPT !.lastModified = <<modified.unix>>] ELSE o1
        o3 == IF output.ContentType # ""
              THEN [o2 EXCEPT !.contentType = <<output.ContentType>>] ELSE o2
        o4 == IF output.ETag # "" THEN [o3 EXCEPT !.etag = <<output.ETag>>] ELSE o3
        o5 == [o4 EXCEPT !.systemMetadata = <<[StorageClass |-> output.StorageClass]>>]
    IN  IF output.ContentLength # <<>> /\ ~length.ok
        THEN [obj |-> <<>>, err |-> NumError]
        ELSE IF output.LastModified # "" /\ ~modified.ok
             THEN [obj |-> <<>>, err |-> ParseError]
             ELSE [obj |-> <<o5>>, err |-> Nil]

-----------------------------------------------------------------------------
(* list *)

ListModeDir == "ListModeDir"
ListModePrefix == "ListModePrefix"
ListModePart == "ListModePart"

\* the list-mode pair of list
ListModeOpts ==
    { [HasListMode |-> FALSE, ListMode |-> {}],
      [HasListMode |-> TRUE, ListMode |-> {ListModeDir}],
      [HasListMode |-> TRUE, ListMode |-> {ListModePrefix}],
      [HasListMode |-> TRUE, ListMode |-> {ListModePart}] }

ListPaths == { <<>>, <<"b", "/">> }

\* Storage.list: the cursor it creates and the page function it selects, or
\* the error it returns
list(path, opt) ==
    LET mode == IF ~opt.HasListMode THEN {ListModePrefix} ELSE opt.ListMode
        input == [prefix |-> GetAbsPath(path), maxKeys |-> 200,
                  delimiter |-> <<>>, marker |-> <<>>]
    IN  CASE ListModeDir \in mode ->
               [input |-> [input EXCEPT !.delimiter = Slash], nextFn |-> "ByDir", err |-> Nil]
          [] ListModePrefix \in mode ->
               [input |-> input, nextFn |-> "ByPrefix", err |-> Nil]
          [] OTHER ->
               [input |-> input, nextFn |-> "none", err |-> ListModeInvalidError]

\* objectPageStatus.ContinuationToken
ContinuationToken(input) == input.marker

\* Storage.formatFileObject
formatFileObject(v) ==
    LET o0 == [NewObject(FALSE) EXCEPT !.ID = v.Key, !.Path = GetRelPath(v.Key),
                                       !.Mode = {ModeRead}]
        length == ParseInt(v.Size)
        o1 == [o0 EXCEPT !.contentLength = <<length.val>>,
                         !.lastModified = <<v.LastModified \div 1000>>]
        o2 == IF v.Etag # "" THEN [o1 EXCEPT !.etag = <<v.Etag>>] ELSE o1
        o3 == [o2 EXCEPT !.systemMetadata = <<[StorageClass |-> v.StorageClass]>>]
    IN  IF ~length.ok THEN [obj |-> <<>>, err |-> NumError]
        ELSE [obj |-> <<o3>>, err |-> Nil]

\* the directory object nextObjectPageByDir makes of a common prefix
formatCommonPrefix(v) ==
    [NewObject(TRUE) EXCEPT !.ID = v.Prefix, !.Path = GetRelPath(v.Prefix),
                            !.Mode = {ModeDir}]

\* the loop over output.Contents: the objects appended to page.Data, and the
\* error of the first entry that does not format
RECURSIVE formatContents(_)
formatContents(contents) ==
    IF contents = <<>> THEN [data |-> <<>>, err |-> Nil]
    ELSE LET first == formatFileObject(Head(contents))
             rest == formatContents(Tail(contents))
         IN  IF first.err # Nil THEN [data |-> <<>>, err |-> first.err]
             ELSE [data |-> first.obj \o rest.data, err |-> rest.err]

lastPageOnlyIfBoth(output) == output.NextMarker = <<>> /\ ~output.IsTruncated

lastPageIfEmpty(output) ==
    \/ output.NextMarker = <<>>
    \/ ~output.IsTruncated
    \/ output.CommonPrefixes \o output.Contents = <<>>

\* the two tests that end a listing, the same in both page functions
lastPage(output) == output.NextMarker = <<>> \/ ~output.IsTruncated

nextMarkerKept(input, output) == input.marker

\* the marker a page function stores when the listing goes on
nextMarker(input, output) == output.NextMarker

\* the end of both page functions, after page.Data is filled
pageEnd(input, output, data) ==
    IF lastPage(output)
    THEN [data |-> data, marker |-> input.marker, err |-> IterateDone]
    ELSE [data |-> data, marker |-> nextMarker(input, output), err |-> Nil]

nextObjectPageByDirFilesFirst(input, output) ==
    LET files == formatContents(output.Contents)
        dirs == [i \in 1..Len(output.CommonPrefixes) |-> formatCommonPrefix(output.CommonPrefixes[i])]
    IN  IF output.err # Nil THEN [data |-> <<>>, marker |-> input.marker, err |-> output.err]
        ELSE IF files.err # Nil
             THEN [data |-> files.data \o dirs, marker |-> input.marker, err |-> files.err]
             ELSE pageEnd(input, output, files.data \o dirs)

\* Storage.nextObjectPageByDir, given the answer of ListObjects
nextObjectPageByDir(input, output) ==
    LET dirs == [i \in 1..Len(output.CommonPrefixes) |-> formatCommonPrefix(output.CommonPrefixes[i])]
        files == formatContents(output.Contents)
    IN  IF output.err # Nil THEN [data |-> <<>>, marker |-> input.marker, err |-> output.err]
        ELSE IF files.err # Nil
             THEN [data |-> dirs \o files.data, marker |-> input.marker, err |-> files.err]
             ELSE pageEnd(input, output, dirs \o files.data)

\* Storage.nextObjectPageByPrefix, given the answer of ListObjects
nextObjectPageByPrefix(input, output) ==
    LET files == formatContents(output.Contents)
    IN  IF output.err # Nil THEN [data |-> <<>>, marker |-> input.marker, err |-> output.err]
        ELSE IF files.err # Nil
             THEN [data |-> files.data, marker |-> input.marker, err |-> files.err]
             ELSE pageEnd(input, output, files.data)

(* The backend's answers to ListObjects *)

\* the numbers of common prefixes and of contents of one response
PageShapes == { <<0, 0>>, <<2, 1>>, <<1, 2>> }

\* the continuation token the backend returns with its c-th response
Token(c) == <<"m">> \o Itoa(c)

\* the j-th content entry of the c-th response; bad marks a malformed size
ContentEntry(prefix, c, j, bad) ==
    [Key |-> prefix \o <<"f">> \o Itoa(c) \o Itoa(j),
     Size |-> IF bad THEN <<"4", "x">> ELSE Itoa(10 * c + j),
     LastModified |-> 1000 * (60 * c + j) + 999,
     Etag |-> IF j = 1 THEN "etag" ELSE "",
     StorageClass |-> IF c % 2 = 1 THEN "STANDARD" ELSE ""]

\* the i-th common prefix of the c-th response
PrefixEntry(prefix, c, i) == [Prefix |-> prefix \o <<"d">> \o Itoa(c) \o Itoa(i) \o Slash]

\* a response to the c-th ListObjects call: the keys lie under the prefix asked
\* for, and common prefixes come only when a delimiter was sent
ListResponses(input, c) ==
    { [err |-> Nil,
       CommonPrefixes |-> [i \in 1..(IF input.delimiter = <<>> THEN 0 ELSE shape[1]) |->
                              PrefixEntry(input.prefix, c, i)],
       Contents |-> [j \in 1..shape[2] |-> ContentEntry(input.prefix, c, j, j = bad)],
       NextMarker |-> end[1],
       IsTruncated |-> end[2]] :
         shape \in PageShapes,
         bad \in 0..2,
         end \in {<<Token(c), TRUE>>, <<Token(c), FALSE>>, <<<<>>, TRUE>>, <<<<>>, FALSE>>} }

NoOutput(e) == [err |-> e, CommonPrefixes |-> <<>>, Contents |-> <<>>,
                NextMarker |-> <<>>, IsTruncated |-> FALSE]

-----------------------------------------------------------------------------
(* The state after construction *)

Procs == {1, 2}

NoArg == [path |-> <<>>, opt |-> [HasObjectMode |-> FALSE, ObjectMode |-> {}], rp |-> <<>>]

NoResult == [obj |-> <<>>, err |-> Nil]

NoCursor == [prefix |-> <<>>, maxKeys |-> 0, delimiter |-> <<>>, marker |-> <<>>]

Init ==
    /\ workDir \in WorkDirs
    /\ virtualDir \in BOOLEAN
    /\ op = "none"
    /\ ret = <<>>
    /\ delLog = <<>>
    /\ errChain = <<>>
    /\ lastHeader = NoHeader
    /\ statPc = [p \in Procs |-> "idle"]
    /\ statArg = [p \in Procs |-> NoArg]
    /\ statOwn = [p \in Procs |-> <<>>]
    /\ statRet = [p \in Procs |-> NoResult]
    /\ cursor = NoCursor
    /\ listMode = "none"
    /\ listState = "none"
    /\ listErr = Nil
    /\ served = <<>>
    /\ delivered = <<>>

configVars == <<workDir, virtualDir>>
statVars == <<lastHeader, statPc, statArg, statOwn, statRet>>
listVars == <<cursor, listMode, listState, listErr, served, delivered>>

-----------------------------------------------------------------------------
(* Actions *)

\* one call of Storage.create
Create ==
    /\ op = "none"
    /\ \E path \in Paths, opt \in ObjectModeOpts :
          ret' = <<[path |-> path, opt |-> opt, objs |-> create(path, opt)]>>
    /\ op' = "create"
    /\ UNCHANGED <<configVars, delLog, errChain, statVars, listVars>>

\* one call of Storage.delete, with the backend's answer to DeleteFile; the
\* calls of one behaviour delete the same key
Delete ==
    /\ op \in {"none", "delete"}
    /\ Len(delLog) < MaxDeletes
    /\ \E path \in Paths, opt \in ObjectModeOpts :
          /\ delLog # <<>> => path = delLog[1].path /\ opt = delLog[1].opt
          /\ IF WantsDir(opt) /\ ~virtualDir
             THEN delLog' = Append(delLog,
                      [path |-> path, opt |-> opt, called |-> FALSE, rp |-> <<>>,
                       backend |-> Nil, err |-> PairUnsupportedError])
             ELSE \E backendErr \in {Nil} \cup BackendErrors :
                      delLog' = Append(delLog,
                          [path |-> path, opt |-> opt, called |-> TRUE,
                           rp |-> deleteKey(path, opt), backend |-> backendErr,
                           err |-> deleteAnswer(backendErr)])
    /\ op' = "delete"
    /\ UNCHANGED <<configVars, ret, errChain, statVars, listVars>>

\* formatError applied to an error, and then to its own result
Normalize ==
    /\ op \in {"none", "formatError"}
    /\ IF errChain = <<>>
       THEN \E e \in ErrorInputs : errChain' = <<e, FormatError(e)>>
       ELSE /\ Len(errChain) < MaxNormalize + 1
            /\ errChain' = Append(errChain, FormatError(errChain[Len(errChain)]))
    /\ op' = "formatError"
    /\ UNCHANGED <<configVars, ret, delLog, statVars, listVars>>

\* the two callers stat different paths
statPath(p) == IF p = 1 THEN <<"a">> ELSE <<"b", "/", "c">>

\* Storage.stat up to the return of HeadFile: the mode check, then the head
\* request, whose response header the client keeps in LastResponseHeader
StatHead(p) ==
    /\ op \in {"none", "stat"}
    /\ statPc[p] = "idle"
    /\ \E path \in {statPath(p)}, opt \in ObjectModeOpts :
          IF WantsDir(opt) /\ ~virtualDir
          THEN /\ statArg' = [statArg EXCEPT ![p] = [path |-> path, opt |-> opt, rp |-> <<>>]]
               /\ statRet' = [statRet EXCEPT ![p] = [obj |-> <<>>, err |-> PairUnsupportedError]]
               /\ statPc' = [statPc EXCEPT ![p] = "done"]
               /\ UNCHANGED <<lastHeader, statOwn>>
          ELSE /\ statArg' = [statArg EXCEPT ![p] =
                                  [path |-> path, opt |-> opt, rp |-> statKey(path, opt)]]
               /\ \/ \E e \in BackendErrors :
                        /\ statRet' = [statRet EXCEPT ![p] = [obj |-> <<>>, err |-> e]]
                        /\ statPc' = [statPc EXCEPT ![p] = "done"]
                        \* a failed request leaves the header of an earlier
                        \* response, or replaces it by that of the failure
                        /\ lastHeader' \in {lastHeader, NoHeader}
                        /\ UNCHANGED statOwn
                  \/ \E h \in Headers :
                        /\ lastHeader' = h
                        /\ statOwn' = [statOwn EXCEPT ![p] = <<h>>]
                        /\ statPc' = [statPc EXCEPT ![p] = "head"]
                        /\ UNCHANGED statRet
    /\ op' = "stat"
    /\ UNCHANGED <<configVars, ret, delLog, errChain, listVars>>

\* Storage.stat from the read of s.client.LastResponseHeader to its return
StatFinish(p) ==
    /\ statPc[p] = "head"
    /\ statRet' = [statRet EXCEPT ![p] =
           statObject(statArg[p].path, statArg[p].opt, statArg[p].rp, lastHeader)]
    /\ statPc' = [statPc EXCEPT ![p] = "done"]
    /\ UNCHANGED <<configVars, op, ret, delLog, errChain, lastHeader, statArg, statOwn, listVars>>

\* one call of Storage.list
List ==
    /\ op = "none"
    /\ \E path \in ListPaths, opt \in ListModeOpts :
          LET l == list(path, opt)
          IN  /\ cursor' = l.input
              /\ listMode' = l.nextFn
              /\ listErr' = l.err
              /\ listState' = IF l.err = Nil THEN "active" ELSE "failed"
    /\ op' = "list"
    /\ UNCHANGED <<configVars, ret, delLog, errChain, statVars, served, delivered>>

\* the iterator asks for the next page: one ListObjects call and the page
\* function's work on its answer.  A nil return leaves the listing open, the
\* IterateDone return ends it, any other error fails it
ListNext ==
    /\ listState = "active"
    /\ Len(served) < MaxCalls
    /\ \E output \in ListResponses(cursor, Len(served) + 1) \cup {NoOutput(PlainError("timeout"))} :
          LET page == IF listMode = "ByDir" THEN nextObjectPageByDir(cursor, output)
                      ELSE nextObjectPageByPrefix(cursor, output)
          IN  /\ served' = Append(served, [input |-> cursor, output |-> output])
              /\ cursor' = [cursor EXCEPT !.marker = page.marker]
              /\ listErr' = page.err
              /\ listState' = CASE page.err = Nil -> "active"
                                 [] page.err = IterateDone -> "done"
                                 [] OTHER -> "failed"
              /\ delivered' = IF page.err \in {Nil, IterateDone}
                              THEN Append(delivered, page.data) ELSE delivered
    /\ UNCHANGED <<configVars, op, ret, delLog, errChain, statVars, listMode>>

Next ==
    \/ Create
    \/ Delete
    \/ Normalize
    \/ List
    \/ ListNext
    \/ \E p \in Procs : StatHead(p)
    \/ \E p \in Procs : StatFinish(p)

Spec == Init /\ [][Next]_vars

-----------------------------------------------------------------------------
(* Properties *)

\* the working directory with its leading slash removed
WorkDirPrefix == TrimPrefix(workDir, Slash)

C6_DeletePropagates ==
    \A i \in 1..Len(delLog) :
        (delLog[i].called /\ delLog[i].backend # Nil /\ delLog[i].backend.code # NoSuchKey)
        => /\ delLog[i].err = delLog[i].backend
           /\ StorageFormatError(delLog[i].err) # Nil
           /\ \/ Kind(StorageFormatError(delLog[i].err)) = ErrUnexpected
              \/ /\ Kind(StorageFormatError(delLog[i].err)) = ErrPermissionDenied
                 /\ delLog[i].backend.code = AccessDenied

C6_Witness ==
    \E i, j \in 1..Len(delLog) :
        /\ delLog[i].backend = PlainError("timeout")
        /\ delLog[i].err # Nil
        /\ delLog[j].backend = PtrServerError(AccessDenied)
        /\ Kind(StorageFormatError(delLog[j].err)) = ErrPermissionDenied

\* the kind the error mapping is to give an error that is not an InternalError
ExpectedKind(e) ==
    IF e.t \in {"ServerError", "*ServerError"}
    THEN CASE e.code = AccessDenied -> ErrPermissionDenied
           [] e.code = NoSuchKey -> ErrObjectNotExist
           [] OTHER -> ErrUnexpected
    ELSE ErrUnexpected

\* C3: formatError maps a backend server error with the access-denied code to
\* permission-denied, one with the no-such-key code to object-not-exist, one
\* with any other code to unexpected, and an error that carries no backend
\* code (and is not already an internal error) to unexpected.
C3_ErrorKinds ==
    (errChain # <<>> /\ ~errChain[1].internal)
    => Kind(errChain[2]) = ExpectedKind(errChain[1])

\* C4: normalizing the result of a normalization returns it unchanged.
C4_NormalizeIdempotent ==
    Len(errChain) >= 3 => errChain[3] = errChain[2]

\* the objects a finished stat call returned
StatObjects == UNION { {statRet[p].obj[k] : k \in 1..Len(statRet[p].obj)} : p \in Procs }

\* the objects create returned
CreateObjects == UNION { {ret[i].objs[k] : k \in 1..Len(ret[i].objs)} : i \in 1..Len(ret) }

\* the objects the listing delivered
ListObjects ==
    UNION { {delivered[i][k] : k \in 1..Len(delivered[i])} : i \in 1..Len(delivered) }

Consistent(o) ==
    /\ o.ID = WorkDirPrefix \o o.Path
    /\ o.Path = TrimPrefix(o.ID, WorkDirPrefix)

\* C7, as claimed: every object returned by create, stat or a listing has
\* ID = workdir_prefix + Path and Path = strip(workdir_prefix, ID).
C7_AllObjectsConsistent ==
    \A o \in CreateObjects \cup StatObjects \cup ListObjects : Consistent(o)

\* C7, amended: every object of a listing and every file object returned by
\* create or stat has ID = workdir_prefix + Path and
\* Path = strip(workdir_prefix, ID); a directory object returned by create or
\* stat has ID = workdir_prefix + Path + "/".
C7_ObjectsConsistent ==
    /\ \A o \in ListObjects : Consistent(o)
    /\ \A o \in CreateObjects \cup StatObjects :
          IF ModeDir \in o.Mode
          THEN o.ID = WorkDirPrefix \o o.Path \o Slash
          ELSE Consistent(o)

C7_Witness ==
    /\ workDir = <<"/", "w", "/">>
    /\ \E o \in StatObjects : ModeDir \in o.Mode /\ o.ID = <<"w", "/", "a", "/">>
    /\ \E o \in StatObjects : ModeRead \in o.Mode /\ o.ID = <<"w", "/", "b", "/", "c">>

\* C8: under every interleaving of two stat calls, each call returns what it
\* would build from the response to its own head request.
C8_StatOwnResponse ==
    \A p \in Procs :
        (statPc[p] = "done" /\ statOwn[p] # <<>>)
        => statRet[p] = statObject(statArg[p].path, statArg[p].opt, statArg[p].rp, statOwn[p][1])

\* the keys of a response in backend order: the common prefixes, then the contents
ResponseKeys(output) ==
    [i \in 1..Len(output.CommonPrefixes) |-> output.CommonPrefixes[i].Prefix]
        \o [j \in 1..Len(output.Contents) |-> output.Contents[j].Key]

ObjectIDs(data) == [k \in 1..Len(data) |-> data[k].ID]

\* a response that ends a listing, as the claims state it
EndsListing(output) == output.NextMarker = <<>> \/ ~output.IsTruncated

\* C2: a listing has stopped exactly when a response had an empty continuation
\* token or truncated=false: while it is open no response was such a one, and
\* once it is done the last response and no earlier one was; then k truncated
\* pages and the final one took k+1 backend calls, and what was delivered is
\* the pages of all k+1 calls in backend order.
C2_ListingStops ==
    /\ listState = "active" =>
          \A i \in 1..Len(served) : ~EndsListing(served[i].output)
    /\ listState = "done" =>
          /\ served # <<>>
          /\ EndsListing(served[Len(served)].output)
          /\ \A i \in 1..(Len(served) - 1) : ~EndsListing(served[i].output)
          /\ Len(delivered) = Len(served)
          /\ \A i \in 1..Len(served) :
                ObjectIDs(delivered[i]) = ResponseKeys(served[i].output)

C2_Witness ==
    /\ listState = "done"
    /\ Len(served) = 4
    /\ \A i \in 1..3 : served[i].output.IsTruncated /\ served[i].output.NextMarker # <<>>
    /\ ~served[4].output.IsTruncated
    /\ \A i \in 1..4 : delivered[i] # <<>>

\* C5: in a directory-mode listing a page of N common prefixes and M contents
\* yields N+M objects: the N directory objects in backend order, each of mode
\* Dir and done, then the M file objects in backend order, each of mode Read
\* with its content length and last-modified set.
C5_DirPage ==
    listMode = "ByDir" =>
        \A i \in 1..Len(delivered) :
            LET out == served[i].output
                n == Len(out.CommonPrefixes)
                m == Len(out.Contents)
                data == delivered[i]
            IN  /\ Len(data) = n + m
                /\ \A k \in 1..n :
                      /\ data[k].ID = out.CommonPrefixes[k].Prefix
                      /\ ModeDir \in data[k].Mode
                      /\ data[k].done
                /\ \A k \in 1..m :
                      /\ data[n + k].ID = out.Contents[k].Key
                      /\ data[n + k].Mode = {ModeRead}
                      /\ data[n + k].contentLength = <<ParseInt(out.Contents[k].Size).val>>
                      /\ data[n + k].lastModified = <<out.Contents[k].LastModified \div 1000>>

C5_Witness ==
    /\ listMode = "ByDir"
    /\ \E i \in 1..Len(delivered) :
          /\ Len(served[i].output.CommonPrefixes) = 2
          /\ Len(served[i].output.Contents) = 1
          /\ Len(delivered[i]) = 3
    /\ \E i \in 1..Len(delivered) :
          /\ Len(served[i].output.CommonPrefixes) = 1
          /\ Len(served[i].output.Contents) = 2
          /\ Len(delivered[i]) = 3

\* a response with no entry that does not end the listing
EmptyOpenPage(output) ==
    /\ output.err = Nil
    /\ output.CommonPrefixes = <<>> /\ output.Contents = <<>>
    /\ output.NextMarker # <<>> /\ output.IsTruncated

\* C9: a page with zero entries, a non-empty token and truncated=true does not
\* end the listing: after it the listing is open with that token as its
\* marker, and the next backend call is made with that token.
C9_EmptyPageGoesOn ==
    \A i \in 1..Len(served) :
        EmptyOpenPage(served[i].output)
        => IF i = Len(served)
           THEN listState = "active" /\ ContinuationToken(cursor) = served[i].output.NextMarker
           ELSE served[i + 1].input.marker = served[i].output.NextMarker

C9_Witness ==
    \E i \in 1..(Len(served) - 1) :
        /\ EmptyOpenPage(served[i].output)
        /\ Len(delivered) > i
        /\ delivered[i + 1] # <<>>

\* C10: the first backend call of a listing is made with an empty marker, and
\* every later one with the continuation token of the response before it;
\* while the listing is open ContinuationToken() is that same token.
C10_MarkerChain ==
    /\ \A i \in 1..Len(served) :
          served[i].input.marker =
              IF i = 1 THEN <<>> ELSE served[i - 1].output.NextMarker
    /\ listState = "active" =>
          ContinuationToken(cursor) =
              IF served = <<>> THEN <<>> ELSE served[Len(served)].output.NextMarker

C10_Witness ==
    /\ Len(served) = 3
    /\ served[2].input.marker = Token(1)
    /\ served[3].input.marker = Token(2)

====
